---- MODULE Spec2Model ----
(***************************************************************************)
(* A model of nest-crud-mixins: the record access service                  *)
(* (MixinsCrudService) over a TypeORM repository, the query composition    *)
(* engine (QueryBuilderService) and the schema resolution of the           *)
(* controller (MixinsCrudController).                                      *)
(*                                                                         *)
(* Values.  Every column value is an integer.  Text columns hold a code    *)
(* into StrTable, whose entry is the text as a sequence of characters, so  *)
(* that LIKE is a real substring test.  NULL is the SQL NULL.  A           *)
(* JavaScript object (payload, entity instance) is a function whose        *)
(* DOMAIN is the set of its defined properties.                            *)
(***************************************************************************)
EXTENDS Integers, Sequences, FiniteSets, TLC

VARIABLES
  store,       \* the table: id -> row, soft-deleted rows included
  res,         \* the last service call: its arguments and its outcome
  controller,  \* the controller class: its metadata and its filterOptions
  http,        \* the last request to the controller and its response
  builder,     \* a FilterOptionsBuilder: its options object and what build() returned
  tasks        \* the service calls in flight at the same time, each at its await

vars == <<store, res, controller, http, builder, tasks>>

---------------------------------------------------------------------------
(* Bounds *)

MaxId == 2        \* identifiers are 1..MaxId
MaxTime == 1      \* timestamps are 1..MaxTime
MaxLimit == 2     \* pagination limits are 0..MaxLimit
MaxClauses == 3   \* a Filter Specification sets at most MaxClauses clauses
MaxDecorators == 2  \* a controller class carries at most MaxDecorators decorators
MaxSetterCalls == 2  \* a builder's setters are called at most MaxSetterCalls times
MaxBuilds == 2    \* build() is called at most MaxBuilds times on a builder

---------------------------------------------------------------------------
(* The entity type: columns and metadata *)

NULL == 0

Ids == 1..MaxId
Times == 1..MaxTime

\* the texts the model uses, in lexicographic order: "a", "ab", "b"
StrTable == << <<"a">>, <<"a", "b">>, <<"b">> >>

NameVals == {1, 2}
EmailVals == {3}

DataCols == {"name", "email"}
AllCols == {"id", "name", "email", "deletedAt"}

ColVals(c) ==
  CASE c = "id" -> Ids
    [] c = "name" -> NameVals
    [] c = "email" -> EmailVals
    [] c = "deletedAt" -> Times

Rows == [name : NameVals \cup {NULL}, email : EmailVals \cup {NULL},
         deletedAt : Times \cup {NULL}]

\* MixinsCrudEntity.getRelations / getEntityName
getRelations == << "profile" >>
getEntityName == "UserEntity"

\* an object without properties
EmptyObj == [k \in {} |-> NULL]

\* a property read: undefined and null both read as NULL
Val(o, k) == IF k \in DOMAIN o THEN o[k] ELSE NULL

\* deep equality of two entity objects, an undefined property equal to null
EntityEq(a, b) == \A k \in AllCols : Val(a, k) = Val(b, k)

\* DeepPartial<ENTITY>: the payloads of createEntity and updateEntity
Payloads ==
  UNION { { p \in [S -> Ids \cup NameVals \cup EmailVals] :
              \A k \in S : p[k] \in ColVals(k) } :
          S \in SUBSET {"id", "name", "email"} }

---------------------------------------------------------------------------
(* The TypeORM repository *)

\* the entity instance the store hands out for a row
RowEntity(id, row) ==
  [k \in AllCols |-> IF k = "id" THEN id ELSE row[k]]

\* Repository.create: a new instance carrying the payload's properties
RepoCreate(dto) == dto

\* Repository.merge: the payload's defined properties overwrite the entity's
RepoMerge(entity, dto) ==
  [k \in DOMAIN entity \cup DOMAIN dto |->
     IF k \in DOMAIN dto THEN dto[k] ELSE entity[k]]

\* the row an INSERT of the instance e writes: a missing column is NULL
InsertRow(e) == [c \in AllCols \ {"id"} |-> Val(e, c)]

\* the row an UPDATE of the instance e leaves: only e's own columns change
UpdateRow(row, e) ==
  [c \in AllCols \ {"id"} |-> IF c \in DOMAIN e THEN e[c] ELSE row[c]]

\* Repository.save with the identifier gen at hand for a generated key:
\* an instance whose id names a row (soft-deleted or not) updates that row,
\* any other instance is inserted.  The result is <<store, instance>>.
RepoSave(st, e, gen) ==
  IF "id" \in DOMAIN e /\ e.id \in DOMAIN st
  THEN << [st EXCEPT ![e.id] = UpdateRow(st[e.id], e)], e >>
  ELSE LET id == IF "id" \in DOMAIN e THEN e.id ELSE gen
           ne == [k \in DOMAIN e \cup {"id"} |-> IF k = "id" THEN id ELSE e[k]]
       IN << [i \in DOMAIN st \cup {id} |->
                IF i = id THEN InsertRow(e) ELSE st[i]], ne >>

\* the identifiers save can generate: any key no row holds
FreeIds(st) == Ids \ DOMAIN st

\* find options leave soft-deleted rows out unless withDeleted is set
Visible(st, withDeleted) ==
  {i \in DOMAIN st : withDeleted \/ st[i].deletedAt = NULL}

\* Repository.findOne({where: {id}, relations}): the instance or NULL
RepoFindOne(st, id) ==
  IF id \in Visible(st, FALSE) THEN RowEntity(id, st[id]) ELSE EmptyObj

\* Repository.delete(id)
RepoDelete(st, id) == [i \in DOMAIN st \ {id} |-> st[i]]

\* Repository.softDelete(id) at time t
RepoSoftDelete(st, id, t) ==
  IF id \in DOMAIN st THEN [st EXCEPT ![id].deletedAt = t] ELSE st

\* Repository.restore(id)
RepoRestore(st, id) ==
  IF id \in DOMAIN st THEN [st EXCEPT ![id].deletedAt = NULL] ELSE st

---------------------------------------------------------------------------
(* FilterOptions: field names are paths, "profile.bio" is <<"profile",     *)
(* "bio">> and the empty name is <<>>                                      *)

\* FilterOptionsBuilder's constructor: the options before any setter
BuilderDefaults ==
  [filters |-> <<>>, orderBy |-> <<>>, selectFields |-> <<>>,
   pagination |-> EmptyObj, search |-> EmptyObj, date |-> [field |-> <<>>],
   includeDeleted |-> FALSE, isNull |-> [field |-> <<>>, isNull |-> FALSE],
   groupBy |-> [field |-> <<>>]]

\* the filter options the model draws from, clause by clause
FiltersOpts ==
  { <<>>,
    << [key |-> <<"name">>, value |-> 1] >>,
    << [key |-> <<"name">>, value |-> 2], [key |-> <<"email">>, value |-> 3] >>,
    << [key |-> <<"profile", "bio">>, value |-> 1] >>,
    << [key |-> <<"search">>, value |-> 2] >> }

OrderByOpts ==
  { <<>>, << [field |-> <<"name">>], [field |-> <<"id">>, order |-> "DESC"] >> }

SelectFieldsOpts == { <<>>, << <<"name">> >> }

PaginationOpts ==
  {EmptyObj} \cup [limit : 0..MaxLimit] \cup [limit : {1}, offset : {1}]

SearchOpts ==
  { EmptyObj,
    [searchFields |-> << <<"name">> >>, value |-> 1],
    [searchFields |-> << <<"email">>, <<"name">> >>, value |-> 3] }

DateOpts ==
  { [field |-> <<>>] } \cup
  [field : {<<"deletedAt">>}, from : {1}, to : Times]

IsNullOpts ==
  { [field |-> <<>>, isNull |-> FALSE],
    [field |-> <<"email">>, isNull |-> TRUE] }

GroupByOpts ==
  { [field |-> <<>>],
    [field |-> <<"name">>, having |-> [condition |-> "COUNT(*) >", value |-> 1]] }

AllFilterSpecs ==
  [filters : FiltersOpts, orderBy : OrderByOpts, selectFields : SelectFieldsOpts,
   pagination : PaginationOpts, search : SearchOpts, date : DateOpts,
   includeDeleted : BOOLEAN, isNull : IsNullOpts, groupBy : GroupByOpts]

\* the clauses a Filter Specification sets to something else than the
\* builder's default
SetClauses(fo) ==
  {c \in DOMAIN fo : fo[c] # BuilderDefaults[c]}

\* the Filter Specifications with at most MaxClauses clauses set
FilterSpecs == {fo \in AllFilterSpecs : Cardinality(SetClauses(fo)) <= MaxClauses}

\* findAllEntities called without filter options: every clause is undefined
NoOptions == EmptyObj

\* filterOptions?.clause: the clause, or the value its apply step takes as undefined
Clause(fo, c, undef) == IF c \in DOMAIN fo THEN fo[c] ELSE undef

---------------------------------------------------------------------------
(* The query handle (SelectQueryBuilder) and QueryBuilderService           *)

\* Repository.createQueryBuilder('entity'): the handle selects the whole
\* root alias
createQueryBuilder ==
  [log |-> <<>>, joins |-> <<>>, wheres |-> <<>>, orders |-> <<>>,
   selects |-> << <<"entity">> >>, limit |-> NULL, offset |-> NULL, withDeleted |-> FALSE,
   groups |-> <<>>, havings |-> <<>>, params |-> EmptyObj]

\* one call on the handle, noted with the step that made it
Logged(qb, step, call) ==
  [qb EXCEPT !.log = Append(@, [step |-> step, call |-> call])]

\* setParameter: a later binding of a name replaces an earlier one
SetParam(ps, name, v) ==
  [n \in DOMAIN ps \cup {name} |-> IF n = name THEN v ELSE ps[n]]

\* a bound value, and the LIKE pattern %value%
Bound(v) == [kind |-> "value", v |-> v]
Pattern(v) == [kind |-> "pattern", v |-> v]

\* !clause?.field: the clause is undefined or its field is the empty name
NoField(o) == "field" \notin DOMAIN o \/ o.field = <<>>

\* `entity.${field}`
Qualify(field) == <<"entity">> \o field

\* leftJoinAndSelect joins the relation and selects its whole alias
leftJoinAndSelect(qb, relation) ==
  Logged([qb EXCEPT !.joins = Append(@, relation),
                    !.selects = Append(@, <<relation>>)],
         "join", "leftJoinAndSelect")

RECURSIVE JoinAll(_, _)
JoinAll(qb, rels) ==
  IF rels = <<>> THEN qb
  ELSE JoinAll(leftJoinAndSelect(qb, Head(rels)), Tail(rels))

andWhere(qb, step, cond) ==
  Logged([qb EXCEPT !.wheres = Append(@, [type |-> "and"] @@ cond)],
         step, "andWhere")

orWhere(qb, step, cond) ==
  Logged([qb EXCEPT !.wheres = Append(@, [type |-> "or"] @@ cond)],
         step, "orWhere")

RECURSIVE applyFilters(_, _)
applyFilters(qb, filters) ==
  IF filters = <<>> THEN qb
  ELSE LET f == Head(filters)
           q1 == andWhere(qb, "filters",
                   [lead |-> "", col |-> Qualify(f.key), op |-> "=",
                    args |-> << f.key >>])
           q2 == [q1 EXCEPT !.params = SetParam(@, f.key, Bound(f.value))]
       IN applyFilters(q2, Tail(filters))

RECURSIVE applyOrderBy(_, _)
applyOrderBy(qb, orderBy) ==
  IF orderBy = <<>> THEN qb
  ELSE LET o == Head(orderBy)
           q1 == Logged([qb EXCEPT !.orders = Append(@,
                     [col |-> Qualify(o.field),
                      order |-> IF "order" \in DOMAIN o THEN o.order ELSE "ASC"])],
                   "orderBy", "addOrderBy")
       IN applyOrderBy(q1, Tail(orderBy))

addSelect(qb, col) ==
  Logged([qb EXCEPT !.selects = Append(@, col)], "selectFields", "addSelect")

RECURSIVE SelectRelations(_, _)
SelectRelations(qb, rels) ==
  IF rels = <<>> THEN qb
  ELSE SelectRelations(
         addSelect(addSelect(qb, <<Head(rels), "id">>), <<Head(rels), "bio">>),
         Tail(rels))

\* new Set(selectFields): the fields without repetition, first occurrence kept
RECURSIVE Distinct(_)
Distinct(s) ==
  IF s = <<>> THEN <<>>
  ELSE LET d == Distinct(SubSeq(s, 1, Len(s) - 1))
       IN IF \E i \in 1..Len(d) : d[i] = s[Len(s)] THEN d
          ELSE Append(d, s[Len(s)])

RECURSIVE SelectFields(_, _)
SelectFields(qb, fields) ==
  IF fields = <<>> THEN qb
  ELSE LET f == Head(fields)
       IN SelectFields(addSelect(qb, IF Len(f) > 1 THEN f ELSE Qualify(f)),
                       Tail(fields))

applySelectFields(qb, selectFields, relations) ==
  IF selectFields = <<>> THEN qb
  ELSE SelectFields(SelectRelations(qb, relations), Distinct(selectFields))

\* applyPagination testing the offset where the code tests the limit
applyPagination_offsetTested(qb, pagination) ==
  IF Val(pagination, "offset") = 0 THEN qb
  ELSE Logged(Logged([qb EXCEPT !.limit = Val(pagination, "limit"),
                                !.offset = pagination.offset],
                     "pagination", "limit"), "pagination", "offset")

applyPagination(qb, pagination) ==
  IF Val(pagination, "limit") = 0 THEN qb
  ELSE Logged(Logged([qb EXCEPT !.limit = pagination.limit,
                                !.offset = Val(pagination, "offset")],
                     "pagination", "limit"), "pagination", "offset")

RECURSIVE SearchFrom(_, _, _, _)
SearchFrom(qb, fields, index, value) ==
  IF index > Len(fields) THEN qb
  ELSE LET q1 == orWhere(qb, "search",
                   [lead |-> IF index = 1 THEN "" ELSE "OR",
                    col |-> Qualify(fields[index]), op |-> "LIKE",
                    args |-> << <<"search">> >>])
           q2 == [q1 EXCEPT !.params = SetParam(@, <<"search">>, Pattern(value))]
       IN SearchFrom(q2, fields, index + 1, value)

applySearch(qb, search) ==
  IF Val(search, "value") = NULL
     \/ "searchFields" \notin DOMAIN search
     \/ Len(search.searchFields) = 0
  THEN qb
  ELSE SearchFrom(qb, search.searchFields, 1, search.value)

applyDateFilter(qb, date) ==
  IF NoField(date) \/ Val(date, "from") = NULL \/ Val(date, "to") = NULL
  THEN qb
  ELSE LET q1 == andWhere(qb, "date",
                   [lead |-> "", col |-> Qualify(date.field), op |-> "BETWEEN",
                    args |-> << <<"from">>, <<"to">> >>])
       IN [q1 EXCEPT !.params =
             SetParam(SetParam(@, <<"from">>, Bound(date.from)),
                      <<"to">>, Bound(date.to))]

applyIncludeDeleted(qb, includeDeleted) ==
  IF includeDeleted
  THEN Logged([qb EXCEPT !.withDeleted = TRUE], "includeDeleted", "withDeleted")
  ELSE qb

\* applyIsNull testing only that the clause is given, not that it names a field
applyIsNull_fieldUnchecked(qb, isNull) ==
  IF "field" \notin DOMAIN isNull THEN qb
  ELSE andWhere(qb, "isNull",
         [lead |-> "", col |-> Qualify(isNull.field),
          op |-> IF isNull.isNull THEN "IS NULL" ELSE "IS NOT NULL",
          args |-> <<>>])

applyIsNull(qb, isNull) ==
  IF NoField(isNull) THEN qb
  ELSE andWhere(qb, "isNull",
         [lead |-> "", col |-> Qualify(isNull.field),
          op |-> IF isNull.isNull THEN "IS NULL" ELSE "IS NOT NULL",
          args |-> <<>>])

\* applyGroupBy writing the having value into the condition text
applyGroupBy_valueInText(qb, groupBy) ==
  IF NoField(groupBy) THEN qb
  ELSE LET q1 == Logged([qb EXCEPT !.groups = << Qualify(groupBy.field) >>],
                        "groupBy", "groupBy")
       IN IF "having" \in DOMAIN groupBy
          THEN Logged([q1 EXCEPT
                 !.havings = << [cond |-> groupBy.having.condition \o " "
                                            \o ToString(groupBy.having.value),
                                 args |-> <<>>] >>],
                 "groupBy", "having")
          ELSE q1

applyGroupBy(qb, groupBy) ==
  IF NoField(groupBy) THEN qb
  ELSE LET q1 == Logged([qb EXCEPT !.groups = << Qualify(groupBy.field) >>],
                        "groupBy", "groupBy")
       IN IF "having" \in DOMAIN groupBy
          THEN Logged([q1 EXCEPT
                 !.havings = << [cond |-> groupBy.having.condition,
                                 args |-> << <<"value">> >>] >>,
                 !.params = SetParam(@, <<"value">>, Bound(groupBy.having.value))],
                 "groupBy", "having")
          ELSE q1

---------------------------------------------------------------------------
(* The store's execution of a composed query (getMany)                     *)

\* the columns of a joined relation
RelationCols == {"id", "bio"}

\* whether the store can resolve a column reference of the query text
ColumnOk(qb, col) ==
  /\ Len(col) = 2
  /\ \/ col[1] = "entity" /\ col[2] \in AllCols
     \/ /\ \E i \in 1..Len(qb.joins) : qb.joins[i] = col[1]
        /\ col[2] \in RelationCols

\* a selection is a column, or a whole alias of the query
SelectionOk(qb, col) ==
  IF Len(col) = 1
  THEN col[1] = "entity" \/ \E i \in 1..Len(qb.joins) : qb.joins[i] = col[1]
  ELSE ColumnOk(qb, col)

\* the conditions the store accepts after HAVING's text
HavingConds == {"COUNT(*) >"}

\* the query text parses and names only columns the store has; a condition
\* text that itself starts with OR follows the OR the handle writes
QueryOk(qb) ==
  /\ \A i \in 1..Len(qb.wheres) :
       qb.wheres[i].lead = "" /\ ColumnOk(qb, qb.wheres[i].col)
  /\ \A i \in 1..Len(qb.orders) : ColumnOk(qb, qb.orders[i].col)
  /\ \A i \in 1..Len(qb.selects) : SelectionOk(qb, qb.selects[i])
  /\ \A i \in 1..Len(qb.groups) : ColumnOk(qb, qb.groups[i])
  /\ \A i \in 1..Len(qb.havings) : qb.havings[i].cond \in HavingConds

\* the value of a column in the joined row of root row id; the model holds
\* no related rows, so a left-joined relation's columns are NULL
Cell(st, id, col) ==
  IF col[1] = "entity"
  THEN IF col[2] = "id" THEN id ELSE st[id][col[2]]
  ELSE NULL

\* needle occurs in hay
IsSubstr(needle, hay) ==
  \E i \in 0..(Len(hay) - Len(needle)) :
     SubSeq(hay, i + 1, i + Len(needle)) = needle

\* column LIKE parameter, on the text columns
Like(col, c, p) ==
  /\ c # NULL
  /\ col[2] \in DataCols
  /\ IF p.kind = "pattern" THEN IsSubstr(StrTable[p.v], StrTable[c])
     ELSE StrTable[p.v] = StrTable[c]

\* one WHERE condition on the row id, its parameters read from the final map
Holds(st, id, w, params) ==
  LET c == Cell(st, id, w.col)
  IN CASE w.op = "=" ->
            LET p == params[w.args[1]]
            IN p.kind = "value" /\ c # NULL /\ c = p.v
       [] w.op = "LIKE" -> Like(w.col, c, params[w.args[1]])
       [] w.op = "BETWEEN" ->
            LET from == params[w.args[1]]
                to == params[w.args[2]]
            IN /\ c # NULL /\ from.kind = "value" /\ to.kind = "value"
               /\ from.v <= c /\ c <= to.v
       [] w.op = "IS NULL" -> c = NULL
       [] w.op = "IS NOT NULL" -> c # NULL

\* the WHERE clauses are written one after the other without parentheses, so
\* AND binds tighter than OR: the row passes when one OR-separated run of
\* conditions holds entirely
Pass(st, id, qb) ==
  LET w == qb.wheres
      n == Len(w)
      starts == {k \in 1..n : k = 1 \/ w[k].type = "or"}
      last(s) == IF \E t \in starts : t > s
                 THEN (CHOOSE t \in starts :
                         t > s /\ \A u \in starts : u > s => t <= u) - 1
                 ELSE n
  IN n = 0 \/ \E s \in starts : \A k \in s..last(s) : Holds(st, id, w[k], qb.params)

\* row i comes before row j under the ORDER BY terms, ties in key order
RECURSIVE Before(_, _, _, _)
Before(st, i, j, orders) ==
  IF orders = <<>> THEN i < j
  ELSE LET o == Head(orders)
           a == Cell(st, i, o.col)
           b == Cell(st, j, o.col)
       IN IF a = b THEN Before(st, i, j, Tail(orders))
          ELSE IF o.order = "DESC" THEN a > b ELSE a < b

Sorted(st, S, orders) ==
  CHOOSE s \in [1..Cardinality(S) -> S] :
    /\ \A k, l \in 1..Cardinality(S) : k < l => Before(st, s[k], s[l], orders)

\* LIMIT and OFFSET; a limit of 0 or none is no limit
Page(s, limit, offset) ==
  LET from == offset + 1
      to == IF limit = NULL THEN Len(s)
            ELSE IF from + limit - 1 < Len(s) THEN from + limit - 1 ELSE Len(s)
  IN SubSeq(s, from, to)

\* GROUP BY: the groups HAVING keeps
Groups(st, S, qb) ==
  LET col == qb.groups[1]
      all == { {i \in S : Cell(st, i, col) = Cell(st, j, col)} : j \in S }
  IN { G \in all :
         \A h \in 1..Len(qb.havings) :
            Cardinality(G) > qb.params[qb.havings[h].args[1]].v }

\* the row sets a grouped query may return: one row for each kept group
GroupChoices(st, S, qb) ==
  LET gs == Groups(st, S, qb)
  IN { R \in SUBSET (UNION gs) : \A G \in gs : Cardinality(R \cap G) = 1 }

\* the root entity with the columns the query selects: all of them when the
\* whole root alias is selected, else the root columns selected one by one
Selected(qb, e) ==
  IF \E i \in 1..Len(qb.selects) : qb.selects[i] = <<"entity">> THEN e
  ELSE [c \in {d \in DOMAIN e :
                 \E i \in 1..Len(qb.selects) : qb.selects[i] = <<"entity", d>>}
          |-> e[c]]

Entities(st, ids) == [k \in 1..Len(ids) |-> RowEntity(ids[k], st[ids[k]])]

\* SelectQueryBuilder.getMany: every outcome the store can produce.  A query
\* the store cannot parse or resolve is rejected.  A grouped query selects
\* ungrouped columns: a strict store rejects it, a lenient one returns one
\* row of each group.
getMany(st, qb) ==
  IF ~QueryOk(qb) THEN { [kind |-> "error", rows |-> <<>>] }
  ELSE LET S == {i \in Visible(st, qb.withDeleted) : Pass(st, i, qb)}
           found(R) == Entities(st, Page(Sorted(st, R, qb.orders), qb.limit, qb.offset))
           result(R) == [kind |-> "ok",
                         rows |-> [k \in 1..Len(found(R)) |-> Selected(qb, found(R)[k])]]
       IN IF qb.groups = <<>> THEN { result(S) }
          ELSE { [kind |-> "error", rows |-> <<>>] }
               \cup { result(R) : R \in GroupChoices(st, S, qb) }

---------------------------------------------------------------------------
(* MixinsCrudService                                                       *)

\* where the store fails during a call: nowhere, at its read or at its write
Faults == {"none", "read", "write"}

\* the record of a service call; every call fills the same fields
Call(op, id, dto, fo) ==
  [op |-> op, id |-> id, dto |-> dto, fo |-> fo, fault |-> "none",
   kind |-> "ok", out |-> EmptyObj, rows |-> <<>>, log |-> <<>>,
   msg |-> EmptyObj]

\* NotFoundException(`Entity ${getEntityName()} with ID ${id} not found`)
NotFound(id) == [entity |-> getEntityName, id |-> id]

\* findEntity handing findOne's result on, null included
findEntityResult_nullable(st, id, fault) ==
  IF fault = "read" THEN [kind |-> "StoreError", out |-> EmptyObj, msg |-> EmptyObj]
  ELSE [kind |-> "ok", out |-> RepoFindOne(st, id), msg |-> EmptyObj]

\* findEntity: the instance, or NotFound when findOne yields none; an error
\* of the store is thrown on as it is
findEntityResult(st, id, fault) ==
  IF fault = "read" THEN [kind |-> "StoreError", out |-> EmptyObj, msg |-> EmptyObj]
  ELSE LET entity == RepoFindOne(st, id)
       IN IF entity = EmptyObj
          THEN [kind |-> "NotFound", out |-> EmptyObj, msg |-> NotFound(id)]
          ELSE [kind |-> "ok", out |-> entity, msg |-> EmptyObj]

\* the chain with applySearch ahead of applyPagination
ComposeQuery_searchFirst(fo) ==
  LET q0 == JoinAll(createQueryBuilder, getRelations)
      q1 == applyFilters(q0, Clause(fo, "filters", <<>>))
      q2 == applyOrderBy(q1, Clause(fo, "orderBy", <<>>))
      q3 == applySelectFields(q2, Clause(fo, "selectFields", <<>>), getRelations)
      q4 == applySearch(q3, Clause(fo, "search", EmptyObj))
      q5 == applyPagination(q4, Clause(fo, "pagination", EmptyObj))
      q6 == applyDateFilter(q5, Clause(fo, "date", EmptyObj))
      q7 == applyIncludeDeleted(q6, Clause(fo, "includeDeleted", FALSE))
      q8 == applyIsNull(q7, Clause(fo, "isNull", EmptyObj))
  IN applyGroupBy(q8, Clause(fo, "groupBy", EmptyObj))

\* the query findAllEntities composes: the relations joined, then the nine
\* apply steps in the order of the chain
ComposeQuery(fo) ==
  LET q0 == JoinAll(createQueryBuilder, getRelations)
      q1 == applyFilters(q0, Clause(fo, "filters", <<>>))
      q2 == applyOrderBy(q1, Clause(fo, "orderBy", <<>>))
      q3 == applySelectFields(q2, Clause(fo, "selectFields", <<>>), getRelations)
      q4 == applyPagination(q3, Clause(fo, "pagination", EmptyObj))
      q5 == applySearch(q4, Clause(fo, "search", EmptyObj))
      q6 == applyDateFilter(q5, Clause(fo, "date", EmptyObj))
      q7 == applyIncludeDeleted(q6, Clause(fo, "includeDeleted", FALSE))
      q8 == applyIsNull(q7, Clause(fo, "isNull", EmptyObj))
  IN applyGroupBy(q8, Clause(fo, "groupBy", EmptyObj))

\* findAllEntities: every result the call can have on the store st; any
\* error becomes InternalServerErrorException
findAllResults(st, fo, fault) ==
  LET qb == ComposeQuery(fo)
      log == Append(qb.log, [step |-> "execute", call |-> "getMany"])
  IN IF fault = "read"
     THEN { [kind |-> "Internal", rows |-> <<>>, log |-> log] }
     ELSE { [kind |-> IF r.kind = "ok" THEN "ok" ELSE "Internal",
             rows |-> r.rows, log |-> log] : r \in getMany(st, qb) }

\* createEntity: create and save; any error becomes
\* InternalServerErrorException
createEntityResult(st, dto, gen, fault) ==
  IF fault = "write"
  THEN [kind |-> "Internal", out |-> EmptyObj, msg |-> EmptyObj, store |-> st]
  ELSE LET saved == RepoSave(st, RepoCreate(dto), gen)
       IN [kind |-> "ok", out |-> saved[2], msg |-> EmptyObj, store |-> saved[1]]

\* what a call that first looks its record up does once findEntity is back:
\* findEntity's error is thrown on; where the caller tests the instance
\* itself (nullChecked), none is NotFound; a failing write is thrown on, and
\* otherwise the write happens
AfterFind(st, id, f, fault, nullChecked, written, out) ==
  IF f.kind # "ok"
  THEN [kind |-> f.kind, out |-> EmptyObj, msg |-> f.msg, store |-> st]
  ELSE IF nullChecked /\ f.out = EmptyObj
  THEN [kind |-> "NotFound", out |-> EmptyObj, msg |-> NotFound(id), store |-> st]
  ELSE IF fault = "write"
  THEN [kind |-> "StoreError", out |-> EmptyObj, msg |-> EmptyObj, store |-> st]
  ELSE [kind |-> "ok", out |-> out, msg |-> EmptyObj, store |-> written]

\* updateEntity saving the payload under the id without looking the record up
updateEntityResult_upsert(st, id, dto, fault) ==
  LET saved == RepoSave(st, RepoMerge([k \in {"id"} |-> id], dto), NULL)
  IN [kind |-> "ok", out |-> saved[2], msg |-> EmptyObj, store |-> saved[1]]

\* updateEntity: findEntity, merge the payload over the instance, save
updateEntityResult(st, id, dto, fault) ==
  LET f == findEntityResult(st, id, fault)
      saved == RepoSave(st, RepoMerge(f.out, dto), NULL)
  IN AfterFind(st, id, f, fault, TRUE, saved[1], saved[2])

\* deleteEntity: findEntity, then delete by id
deleteEntityResult(st, id, fault) ==
  AfterFind(st, id, findEntityResult(st, id, fault), fault, TRUE,
            RepoDelete(st, id), EmptyObj)

\* softDeleteEntity: findEntity, then softDelete by id
softDeleteEntityResult(st, id, t, fault) ==
  AfterFind(st, id, findEntityResult(st, id, fault), fault, TRUE,
            RepoSoftDelete(st, id, t), EmptyObj)

\* restoreEntity: findEntity, then restore by id
restoreEntityResult(st, id, fault) ==
  AfterFind(st, id, findEntityResult(st, id, fault), fault, FALSE,
            RepoRestore(st, id), EmptyObj)

\* the caller holds no call's result
Idle == Call("idle", NULL, EmptyObj, EmptyObj)

\* a call of the service made and its result handed to the caller
Called(call, fault, r) ==
  /\ res = Idle
  /\ res' = [call EXCEPT !.fault = fault, !.kind = r.kind, !.out = r.out,
                         !.msg = r.msg]
  /\ store' = r.store
  /\ UNCHANGED <<controller, http, builder, tasks>>

createEntity(dto, gen, fault) ==
  Called(Call("createEntity", NULL, dto, EmptyObj), fault,
         createEntityResult(store, dto, gen, fault))

findEntity(id, fault) ==
  Called(Call("findEntity", id, EmptyObj, EmptyObj), fault,
         findEntityResult(store, id, fault) @@ [store |-> store])

findAllEntities(fo, fault) ==
  /\ res = Idle
  /\ \E r \in findAllResults(store, fo, fault) :
       res' = [Call("findAllEntities", NULL, EmptyObj, fo) EXCEPT
                 !.fault = fault, !.kind = r.kind, !.rows = r.rows, !.log = r.log]
  /\ UNCHANGED <<store, controller, http, builder, tasks>>

updateEntity(id, dto, fault) ==
  Called(Call("updateEntity", id, dto, EmptyObj), fault,
         updateEntityResult(store, id, dto, fault))

deleteEntity(id, fault) ==
  Called(Call("deleteEntity", id, EmptyObj, EmptyObj), fault,
         deleteEntityResult(store, id, fault))

softDeleteEntity(id, t, fault) ==
  Called(Call("softDeleteEntity", id, EmptyObj, EmptyObj), fault,
         softDeleteEntityResult(store, id, t, fault))

restoreEntity(id, fault) ==
  Called(Call("restoreEntity", id, EmptyObj, EmptyObj), fault,
         restoreEntityResult(store, id, fault))

\* the caller takes the result; each call is independent of the one before
Return ==
  /\ res # Idle
  /\ res' = Idle
  /\ UNCHANGED <<store, controller, http, builder, tasks>>

---------------------------------------------------------------------------
(* Calls of the service in flight at the same time.  A call runs from one  *)
(* await to the next without interruption; between two awaits of a call    *)
(* any other call may run.                                                 *)

\* no call is in flight
NoTasks == <<>>

\* a call of updateEntity(id, dto) or deleteEntity(id) that has not started
Task(op, id, dto) ==
  [op |-> op, id |-> id, dto |-> dto, pc |-> "start", entity |-> EmptyObj,
   kind |-> "ok", out |-> EmptyObj]

\* a step of the call p at the place pc: what it does to the call and to
\* the store
Step(p, op, pc, after, st) ==
  /\ p \in DOMAIN tasks
  /\ tasks[p].op = op
  /\ tasks[p].pc = pc
  /\ tasks' = [tasks EXCEPT ![p] = after]
  /\ store' = st
  /\ UNCHANGED <<res, controller, http, builder>>

\* const entity = await this.findEntity(id): the call goes on with the
\* instance it read, or ends with findEntity's NotFound
Found(p) ==
  LET f == findEntityResult(store, tasks[p].id, "none")
  IN IF f.kind = "ok"
     THEN [tasks[p] EXCEPT !.pc = "found", !.entity = f.out]
     ELSE [tasks[p] EXCEPT !.pc = "done", !.kind = f.kind]

\* updateEntity up to its first await
updateEntityFind(p) == Step(p, "updateEntity", "start", Found(p), store)

\* updateEntity from findEntity's answer on: merge and save
updateEntitySave(p) ==
  LET saved == RepoSave(store, RepoMerge(tasks[p].entity, tasks[p].dto), NULL)
  IN Step(p, "updateEntity", "found",
          [tasks[p] EXCEPT !.pc = "done", !.out = saved[2]], saved[1])

\* deleteEntity up to its first await
deleteEntityFind(p) == Step(p, "deleteEntity", "start", Found(p), store)

\* deleteEntity from findEntity's answer on: delete by id
deleteEntityDelete(p) ==
  Step(p, "deleteEntity", "found", [tasks[p] EXCEPT !.pc = "done"],
       RepoDelete(store, tasks[p].id))

---------------------------------------------------------------------------
(* Decorators and the metadata they define                                 *)

CREATE_DTO_KEY == "createDto"
UPDATE_DTO_KEY == "updateDto"
RESPONSE_DTO_KEY == "responseDto"

\* the target of a class-level decorator: the controller's constructor
ClassTarget == "class"

\* no method name given
NoMethod == ""

\* the value of metadata that was never defined
Undefined == EmptyObj

\* Reflect.defineMetadata(key, value, target[, propertyKey])
defineMetadata(meta, key, value, target) ==
  [s \in DOMAIN meta \cup {<<key, target>>} |->
     IF s = <<key, target>> THEN value ELSE meta[s]]

\* Reflect.getMetadata(key, target[, propertyKey])
getMetadata(meta, key, target) ==
  IF <<key, target>> \in DOMAIN meta THEN meta[<<key, target>>] ELSE Undefined

CreateDto(meta, dto, target) == defineMetadata(meta, CREATE_DTO_KEY, dto, target)

UpdateDto(meta, dto, target) == defineMetadata(meta, UPDATE_DTO_KEY, dto, target)

ResponseDto(meta, dto, transformFn, target) ==
  defineMetadata(meta, RESPONSE_DTO_KEY,
                 [dto |-> dto, transformFn |-> transformFn], target)

\* the input schemas: a class and the properties its validators name
InputDtos ==
  { [class |-> "CreateUserDto", fields |-> {"name", "email"}],
    [class |-> "RenameUserDto", fields |-> {"name"}] }

\* the built-in Object, the schema of a controller without an input schema
ObjectClass == [class |-> "Object", fields |-> {}]

\* a transform function that wraps the data, and none
Envelope == "envelope"
NoTransform == "none"

\* the arguments given to @ResponseDto: an output schema, a class and the
\* properties it exposes, and a transform function or none
ResponseArgs ==
  { [dto |-> [class |-> "UserResponseDto", fields |-> {"id", "name", "email"}],
     transformFn |-> Envelope],
    [dto |-> [class |-> "UserNameDto", fields |-> {"id", "name"}],
     transformFn |-> NoTransform] }

\* the handlers that carry method-level decorators
DecoratedMethods == {"getOne", "update"}

DecoratorTargets == {ClassTarget} \cup DecoratedMethods

\* the metadata after one more decorator
Decorate(meta) ==
  {CreateDto(meta, d, t) : d \in InputDtos, t \in DecoratorTargets}
  \cup {UpdateDto(meta, d, t) : d \in InputDtos, t \in DecoratorTargets}
  \cup {ResponseDto(meta, a.dto, a.transformFn, t) :
          a \in ResponseArgs, t \in DecoratorTargets}

\* the metadata of the controllers with at most n decorators
RECURSIVE Registries(_)
Registries(n) ==
  IF n = 0 THEN {EmptyObj}
  ELSE LET prev == Registries(n - 1)
       IN prev \cup UNION {Decorate(m) : m \in prev}

---------------------------------------------------------------------------
(* EntityToDtoMapper and the validation pipe                               *)

\* EntityToDtoMapper.map handing the entity on with every property it has
map_unprojected(DtoClass, entity) == entity

\* EntityToDtoMapper.map: plainToInstance with excludeExtraneousValues keeps
\* the exposed properties only; no class or no entity gives the entity back
map(DtoClass, entity) ==
  IF DtoClass = Undefined \/ entity = EmptyObj THEN entity
  ELSE [k \in DOMAIN entity \cap DtoClass.fields |-> entity[k]]

\* transformFn(data)
ApplyTransform(transformFn, data) ==
  IF transformFn = Envelope THEN [success |-> TRUE, data |-> data] ELSE data

\* setValidationPipes: the pipe validates nothing against Object; with
\* whitelist and forbidNonWhitelisted a property the schema does not name
\* is a DTOValidationException
setValidationPipes(dto, dtoClass) ==
  IF dtoClass = ObjectClass THEN "ok"
  ELSE IF DOMAIN dto \subseteq dtoClass.fields THEN "ok"
  ELSE "Validation"

---------------------------------------------------------------------------
(* MixinsCrudController                                                    *)

\* the entry LoggerUtils writes
LogEntry(level, message) == [level |-> level, message |-> message]

NoResponseDtoWarning ==
  LogEntry("warn", "No @ResponseDto() decorator found entity object will be returned")

getCreateDto(meta, methodName) ==
  LET methodDto == getMetadata(meta, CREATE_DTO_KEY, methodName)
      classDto == getMetadata(meta, CREATE_DTO_KEY, ClassTarget)
  IN IF methodName # NoMethod /\ methodDto # Undefined THEN methodDto
     ELSE IF classDto # Undefined THEN classDto
     ELSE ObjectClass

getUpdateDto(meta, methodName) ==
  LET methodDto == getMetadata(meta, UPDATE_DTO_KEY, methodName)
      classDto == getMetadata(meta, UPDATE_DTO_KEY, ClassTarget)
  IN IF methodName # NoMethod /\ methodDto # Undefined THEN methodDto
     ELSE IF classDto # Undefined THEN classDto
     ELSE ObjectClass

\* transformToResponseDto giving the transform function each record of a
\* list in turn
transformToResponseDto_perRecord(meta, entity, isArray, methodName) ==
  LET methodResponseMeta == getMetadata(meta, RESPONSE_DTO_KEY, methodName)
      classResponseMeta == getMetadata(meta, RESPONSE_DTO_KEY, ClassTarget)
  IN IF classResponseMeta = Undefined /\ methodResponseMeta = Undefined
     THEN [data |-> entity, log |-> <<NoResponseDtoWarning>>]
     ELSE LET used == IF methodResponseMeta # Undefined THEN methodResponseMeta
                      ELSE classResponseMeta
          IN [data |-> IF isArray
                       THEN [k \in 1..Len(entity) |->
                               ApplyTransform(used.transformFn,
                                              map(used.dto, entity[k]))]
                       ELSE ApplyTransform(used.transformFn, map(used.dto, entity)),
              log |-> <<>>]

\* transformToResponseDto with the class-level metadata ahead of the method's
transformToResponseDto_classFirst(meta, entity, isArray, methodName) ==
  LET methodResponseMeta == getMetadata(meta, RESPONSE_DTO_KEY, methodName)
      classResponseMeta == getMetadata(meta, RESPONSE_DTO_KEY, ClassTarget)
  IN IF classResponseMeta = Undefined /\ methodResponseMeta = Undefined
     THEN [data |-> entity, log |-> <<NoResponseDtoWarning>>]
     ELSE LET used == IF classResponseMeta # Undefined THEN classResponseMeta
                      ELSE methodResponseMeta
              transformedData ==
                IF isArray
                THEN [k \in 1..Len(entity) |-> map(used.dto, entity[k])]
                ELSE map(used.dto, entity)
          IN [data |-> ApplyTransform(used.transformFn, transformedData),
              log |-> <<>>]

\* transformToResponseDto: the method's metadata, else the class's; with
\* neither, a warning and the entity as it is; the transform function is
\* applied to the mapped data, a single object or an array
transformToResponseDto(meta, entity, isArray, methodName) ==
  LET methodResponseMeta ==
        IF methodName # NoMethod
        THEN getMetadata(meta, RESPONSE_DTO_KEY, methodName) ELSE Undefined
      classResponseMeta == getMetadata(meta, RESPONSE_DTO_KEY, ClassTarget)
  IN IF classResponseMeta = Undefined /\ methodResponseMeta = Undefined
     THEN [data |-> entity, log |-> <<NoResponseDtoWarning>>]
     ELSE LET used == IF methodResponseMeta # Undefined THEN methodResponseMeta
                      ELSE classResponseMeta
              transformedData ==
                IF isArray
                THEN [k \in 1..Len(entity) |-> map(used.dto, entity[k])]
                ELSE map(used.dto, entity)
          IN [data |-> ApplyTransform(used.transformFn, transformedData),
              log |-> <<>>]

\* the errors that are HttpException: the handlers' catch throws them on
HttpKinds == {"NotFound", "Internal", "Validation"}

\* catch (error) throwing InternalServerErrorException for every error
Caught_generic(kind) == "Internal"

\* catch (error): an HttpException as it is, anything else as
\* InternalServerErrorException
Caught(kind) == IF kind \in HttpKinds THEN kind ELSE "Internal"

\* the record of a request: the handler, its arguments and its response
Request(handler, id, body) ==
  [handler |-> handler, id |-> id, body |-> body, method |-> NoMethod,
   fault |-> "none", kind |-> "ok", dto |-> Undefined, calls |-> <<>>,
   entity |-> EmptyObj, data |-> EmptyObj, log |-> <<>>, msg |-> EmptyObj]

\* the request once the handler has made these calls of the service
Via(req, calls) == [req EXCEPT !.calls = calls]

\* no request is being answered
NoRequest == Request("none", NULL, EmptyObj)

\* a controller without decorators and with the default filterOptions
PlainController == [meta |-> EmptyObj, filterOptions |-> EmptyObj]

\* the handler threw; logged is what the handler's catch wrote, if it caught
Failed(req, fault, kind, msg, logged, st) ==
  /\ http' = [req EXCEPT !.fault = fault, !.kind = kind, !.msg = msg,
                         !.log = IF logged = "" THEN <<>>
                                 ELSE <<LogEntry("error", logged)>>]
  /\ store' = st

\* the handler answered with the entity transformed for the response
Answered(req, fault, entity, isArray, st) ==
  LET t == transformToResponseDto(controller.meta, entity, isArray, req.handler)
  IN /\ http' = [req EXCEPT !.fault = fault, !.entity = entity,
                            !.data = t.data, !.log = t.log]
     /\ store' = st

\* the guard and the frame of every handler
Handling ==
  /\ http = NoRequest
  /\ res = Idle
  /\ UNCHANGED <<res, controller, builder, tasks>>

\* create saving the payload before it validates it
create_saveFirst(body, gen, fault) ==
  LET dto == getCreateDto(controller.meta, "create")
      req == Via([Request("create", NULL, body) EXCEPT !.dto = dto],
                 <<"createEntity">>)
      r == createEntityResult(store, body, gen, fault)
  IN /\ Handling
     /\ IF r.kind # "ok"
        THEN Failed(req, fault, Caught(r.kind), r.msg, "Error in create()", store)
        ELSE IF setValidationPipes(body, dto) # "ok"
        THEN Failed(req, fault, "Validation", EmptyObj, "Error in create()", r.store)
        ELSE Answered(req, fault, r.out, FALSE, r.store)

create(body, gen, fault) ==
  LET dto == getCreateDto(controller.meta, "create")
      req == [Request("create", NULL, body) EXCEPT !.dto = dto]
      r == createEntityResult(store, body, gen, fault)
  IN /\ Handling
     /\ IF dto = Undefined
        THEN Failed(req, fault, "DTOException", EmptyObj, "", store)
        ELSE IF setValidationPipes(body, dto) # "ok"
        THEN Failed(req, fault, "Validation", EmptyObj, "Error in create()", store)
        ELSE IF r.kind # "ok"
        THEN Failed(Via(req, <<"createEntity">>), fault, Caught(r.kind), r.msg,
                    "Error in create()", store)
        ELSE Answered(Via(req, <<"createEntity">>), fault, r.out, FALSE, r.store)

getAll(fault) ==
  LET req == Via(Request("getAll", NULL, EmptyObj), <<"findAllEntities">>)
  IN /\ Handling
     /\ \E r \in findAllResults(store, controller.filterOptions, fault) :
          IF r.kind # "ok"
          THEN Failed(req, fault, Caught(r.kind), EmptyObj, "Error in getAll()", store)
          ELSE Answered(req, fault, r.rows, TRUE, store)

\* getOne calls findEntity outside its try: the service's error leaves the
\* handler as it is
getOne(id, fault) ==
  LET req == Via(Request("getOne", id, EmptyObj), <<"findEntity">>)
      f == findEntityResult(store, id, fault)
  IN /\ Handling
     /\ IF f.kind # "ok"
        THEN Failed(req, fault, f.kind, f.msg, "", store)
        ELSE IF f.out = EmptyObj
        THEN Failed(req, fault, "NotFound", NotFound(id), "Entity not found", store)
        ELSE Answered(req, fault, f.out, FALSE, store)

\* delete: findEntity, then softDeleteEntity when filterOptions.includeDeleted
\* is set and deleteEntity otherwise
delete(id, t, fault) ==
  LET soft == Clause(controller.filterOptions, "includeDeleted", FALSE)
      found == Via(Request("delete", id, EmptyObj), <<"findEntity">>)
      req == Via(found, <<"findEntity",
                          IF soft THEN "softDeleteEntity" ELSE "deleteEntity">>)
      f == findEntityResult(store, id, fault)
      r == IF soft
           THEN softDeleteEntityResult(store, id, t, fault)
           ELSE deleteEntityResult(store, id, fault)
  IN /\ Handling
     /\ IF f.kind # "ok"
        THEN Failed(found, fault, Caught(f.kind), f.msg, "Error in delete()", store)
        ELSE IF f.out = EmptyObj
        THEN Failed(found, fault, "NotFound", NotFound(id), "Error in delete()", store)
        ELSE IF r.kind # "ok"
        THEN Failed(req, fault, Caught(r.kind), r.msg, "Error in delete()", store)
        ELSE /\ http' = [req EXCEPT !.fault = fault]
             /\ store' = r.store

\* update and partialUpdate read the input schema with getCreateDto('update')
update(id, body, fault) ==
  LET dto == getCreateDto(controller.meta, "update")
      req == [Request("update", id, body) EXCEPT !.dto = dto]
      r == updateEntityResult(store, id, body, fault)
  IN /\ Handling
     /\ IF dto = Undefined
        THEN Failed(req, fault, "DTOException", EmptyObj, "", store)
        ELSE IF setValidationPipes(body, dto) # "ok"
        THEN Failed(req, fault, "Validation", EmptyObj, "", store)
        ELSE IF r.kind # "ok"
        THEN Failed(Via(req, <<"updateEntity">>), fault, Caught(r.kind), r.msg,
                    "Error in update()", store)
        ELSE Answered(Via(req, <<"updateEntity">>), fault, r.out, FALSE, r.store)

partialUpdate(id, body, fault) ==
  LET dto == getCreateDto(controller.meta, "update")
      req == [Request("partialUpdate", id, body) EXCEPT !.dto = dto]
      r == updateEntityResult(store, id, body, fault)
  IN /\ Handling
     /\ IF dto = Undefined
        THEN Failed(req, fault, "DTOException", EmptyObj, "", store)
        ELSE IF setValidationPipes(body, dto) # "ok"
        THEN Failed(req, fault, "Validation", EmptyObj, "Error in create()", store)
        ELSE IF r.kind # "ok"
        THEN Failed(Via(req, <<"updateEntity">>), fault, Caught(r.kind), r.msg,
                    "Error in create()", store)
        ELSE Answered(Via(req, <<"updateEntity">>), fault, r.out, FALSE, r.store)

\* the controller's restoreEntity
restoreEntityHandler(id, fault) ==
  LET req == Via(Request("restoreEntity", id, EmptyObj), <<"restoreEntity">>)
      r == restoreEntityResult(store, id, fault)
  IN /\ Handling
     /\ IF r.kind # "ok"
        THEN Failed(req, fault, Caught(r.kind), r.msg, "Error in restoreEntity()", store)
        ELSE /\ http' = [req EXCEPT !.fault = fault]
             /\ store' = r.store

\* a subclass reads the input schema of a method, or of the class
readCreateDto(methodName) ==
  /\ Handling
  /\ http' = [Request("getCreateDto", NULL, EmptyObj) EXCEPT
               !.method = methodName,
               !.dto = getCreateDto(controller.meta, methodName)]
  /\ UNCHANGED store

readUpdateDto(methodName) ==
  /\ Handling
  /\ http' = [Request("getUpdateDto", NULL, EmptyObj) EXCEPT
               !.method = methodName,
               !.dto = getUpdateDto(controller.meta, methodName)]
  /\ UNCHANGED store

\* the response is sent; each request is independent of the one before
Respond ==
  /\ http # NoRequest
  /\ http' = NoRequest
  /\ UNCHANGED <<store, res, controller, builder, tasks>>

---------------------------------------------------------------------------
(* FilterOptionsBuilder                                                    *)

\* new FilterOptionsBuilder(): the options object with its defaults, nothing
\* built and no setter called
NewBuilder == [options |-> BuilderDefaults, built |-> <<>>, sets |-> 0]

\* a setter that starts from a new options object holding its own field only
Assigned_fromDefaults(field, value) ==
  /\ builder.sets < MaxSetterCalls
  /\ builder' = [builder EXCEPT !.options = [BuilderDefaults EXCEPT ![field] = value],
                                !.sets = @ + 1]
  /\ UNCHANGED <<store, res, controller, http, tasks>>

\* a setter assigns one field of the options object and returns the builder
Assigned(field, value) ==
  /\ builder.sets < MaxSetterCalls
  /\ builder' = [builder EXCEPT !.options[field] = value, !.sets = @ + 1]
  /\ UNCHANGED <<store, res, controller, http, tasks>>

setFilters(filters) == Assigned("filters", filters)

setOrderBy(orderBy) == Assigned("orderBy", orderBy)

setSelectFields(selectFields) == Assigned("selectFields", selectFields)

setPagination(limit, offset) ==
  Assigned("pagination", [limit |-> limit, offset |-> offset])

setSearch(searchFields, value) ==
  Assigned("search", [searchFields |-> searchFields, value |-> value])

setDateRange(field, from, to) ==
  Assigned("date", [field |-> field, from |-> from, to |-> to])

setIncludeDeleted(includeDeleted) == Assigned("includeDeleted", includeDeleted)

setIsNull(field, isNull) == Assigned("isNull", [field |-> field, isNull |-> isNull])

\* setGroupBy(field, having?): having is a record, or Undefined when left out
setGroupBy(field, having) ==
  Assigned("groupBy",
           IF having = EmptyObj THEN [field |-> field]
           ELSE [field |-> field, having |-> having])

\* what the object the k-th build() returned holds now: build() returns
\* this.options, the object the setters assign to
Returned(k) == builder.options

\* build(): returns this.options; seen is what the caller found in it then
build ==
  /\ Len(builder.built) < MaxBuilds
  /\ builder' = [builder EXCEPT !.built = Append(@, [seen |-> builder.options])]
  /\ UNCHANGED <<store, res, controller, http, tasks>>

---------------------------------------------------------------------------
(* Spec: the service's single-record operations over one table *)

\* the identifiers a caller asks for: those of the table and one beyond
AskIds == 1..(MaxId + 1)

Init ==
  /\ store = EmptyObj
  /\ res = Idle
  /\ controller = PlainController
  /\ http = NoRequest
  /\ builder = NewBuilder
  /\ tasks = NoTasks

Next ==
  \/ \E dto \in Payloads :
       \E gen \in IF "id" \in DOMAIN dto THEN {NULL} ELSE FreeIds(store) :
         \E fault \in {"none", "write"} : createEntity(dto, gen, fault)
  \/ \E id \in AskIds, fault \in {"none", "read"} : findEntity(id, fault)
  \/ \E id \in AskIds, dto \in Payloads, fault \in Faults :
       updateEntity(id, dto, fault)
  \/ \E id \in AskIds, fault \in Faults : deleteEntity(id, fault)
  \/ \E id \in AskIds, t \in Times, fault \in Faults : softDeleteEntity(id, t, fault)
  \/ \E id \in AskIds, fault \in Faults : restoreEntity(id, fault)
  \/ Return

Spec == Init /\ [][Next]_vars

---------------------------------------------------------------------------
(* SpecQuery: findAllEntities over every table the service can build *)

\* every table: any rows under any identifiers
Stores == UNION { [S -> Rows] : S \in SUBSET Ids }

InitQuery ==
  /\ store \in Stores
  /\ res = Idle
  /\ controller = PlainController
  /\ http = NoRequest
  /\ builder = NewBuilder
  /\ tasks = NoTasks

NextQuery ==
  \/ \E fo \in FilterSpecs \cup {NoOptions}, fault \in {"none", "read"} :
       findAllEntities(fo, fault)
  \/ Return

SpecQuery == InitQuery /\ [][NextQuery]_vars

---------------------------------------------------------------------------
(* SpecCtrl: the controller's handlers, for every controller class with at
   most MaxDecorators decorators *)

\* the bodies of the requests
Bodies == { [name |-> 1], [name |-> 2, email |-> 3] }

\* the filterOptions a controller class declares
ControllerOptions == { EmptyObj, [includeDeleted |-> TRUE] }

Controllers ==
  [meta : Registries(MaxDecorators), filterOptions : ControllerOptions]

InitCtrl ==
  /\ store = EmptyObj
  /\ res = Idle
  /\ controller \in Controllers
  /\ http = NoRequest
  /\ builder = NewBuilder
  /\ tasks = NoTasks

NextCtrl ==
  \/ \E body \in Bodies, gen \in FreeIds(store), fault \in {"none", "write"} :
       create(body, gen, fault)
  \/ \E fault \in {"none", "read"} : getAll(fault)
  \/ \E id \in AskIds, fault \in {"none", "read"} : getOne(id, fault)
  \/ \E id \in AskIds, t \in Times, fault \in Faults : delete(id, t, fault)
  \/ \E id \in AskIds, body \in Bodies, fault \in Faults : update(id, body, fault)
  \/ \E id \in AskIds, body \in Bodies, fault \in Faults :
       partialUpdate(id, body, fault)
  \/ \E id \in AskIds, fault \in Faults : restoreEntityHandler(id, fault)
  \/ \E m \in {NoMethod} \cup DecoratedMethods : readCreateDto(m)
  \/ \E m \in {NoMethod} \cup DecoratedMethods : readUpdateDto(m)
  \/ Respond

SpecCtrl == InitCtrl /\ [][NextCtrl]_vars

---------------------------------------------------------------------------
(* SpecBuilder: a FilterOptionsBuilder under at most MaxSetterCalls calls of
   its setters and MaxBuilds calls of build() *)

InitBuilder ==
  /\ store = EmptyObj
  /\ res = Idle
  /\ controller = PlainController
  /\ http = NoRequest
  /\ builder = NewBuilder
  /\ tasks = NoTasks

NextBuilder ==
  \/ \E filters \in FiltersOpts : setFilters(filters)
  \/ \E orderBy \in OrderByOpts : setOrderBy(orderBy)
  \/ \E selectFields \in SelectFieldsOpts : setSelectFields(selectFields)
  \/ \E limit \in 0..MaxLimit, offset \in 0..1 : setPagination(limit, offset)
  \/ \E s \in SearchOpts \ {EmptyObj} : setSearch(s.searchFields, s.value)
  \/ \E d \in DateOpts \ {[field |-> <<>>]} : setDateRange(d.field, d.from, d.to)
  \/ \E includeDeleted \in BOOLEAN : setIncludeDeleted(includeDeleted)
  \/ \E n \in IsNullOpts : setIsNull(n.field, n.isNull)
  \/ \E g \in GroupByOpts :
       setGroupBy(g.field, IF "having" \in DOMAIN g THEN g.having ELSE EmptyObj)
  \/ build

SpecBuilder == InitBuilder /\ [][NextBuilder]_vars

---------------------------------------------------------------------------
(* SpecDelete: the controller's delete over every table, soft-deleted rows
   included, for a controller with and without includeDeleted *)

InitDelete ==
  /\ store \in Stores
  /\ res = Idle
  /\ controller \in [meta : {EmptyObj}, filterOptions : ControllerOptions]
  /\ http = NoRequest
  /\ builder = NewBuilder
  /\ tasks = NoTasks

NextDelete ==
  \/ \E id \in AskIds, t \in Times, fault \in Faults : delete(id, t, fault)
  \/ Respond

SpecDelete == InitDelete /\ [][NextDelete]_vars

---------------------------------------------------------------------------
(* SpecConcurrent: two calls of the service in flight at the same time, over
   every table: an updateEntity beside another updateEntity of a disjoint
   payload, or beside a deleteEntity *)

\* the two calls: updateEntity(id, {name}) and, on any id, updateEntity of
\* {email} or deleteEntity
TaskPairs ==
  { << Task("updateEntity", id, [name |-> 2]), second >> :
      id \in Ids,
      second \in {Task("updateEntity", i, [email |-> 3]) : i \in Ids}
                 \cup {Task("deleteEntity", i, EmptyObj) : i \in Ids} }

InitConcurrent ==
  /\ store \in Stores
  /\ res = Idle
  /\ controller = PlainController
  /\ http = NoRequest
  /\ builder = NewBuilder
  /\ tasks \in TaskPairs

NextConcurrent ==
  \E p \in 1..2 :
    \/ updateEntityFind(p)
    \/ updateEntitySave(p)
    \/ deleteEntityFind(p)
    \/ deleteEntityDelete(p)

SpecConcurrent == InitConcurrent /\ [][NextConcurrent]_vars

---------------------------------------------------------------------------
(* Properties of findAllEntities                                           *)

\* the place of each step in the chain of findAllEntities
StepRank(step) ==
  CASE step = "join" -> 0
    [] step = "filters" -> 1
    [] step = "orderBy" -> 2
    [] step = "selectFields" -> 3
    [] step = "pagination" -> 4
    [] step = "search" -> 5
    [] step = "date" -> 6
    [] step = "includeDeleted" -> 7
    [] step = "isNull" -> 8
    [] step = "groupBy" -> 9
    [] step = "execute" -> 10

\* the clauses of a Filter Specification that have something to apply
Applied(fo) ==
  {c \in DOMAIN fo :
     \/ c \in {"filters", "orderBy", "selectFields"} /\ fo[c] # <<>>
     \/ c = "pagination" /\ Val(fo[c], "limit") # 0
     \/ c = "search" /\ fo[c] # EmptyObj
     \/ c \in {"date", "isNull", "groupBy"} /\ fo[c].field # <<>>
     \/ c = "includeDeleted" /\ fo[c]}

\* C1: findAllEntities first joins every relation of the entity's metadata,
\* in their order, then makes the calls of the clauses in the fixed order
\* filters, orderBy, selectFields, pagination, search, date, includeDeleted,
\* isNull, groupBy (each clause that has something to apply is there), and
\* executes the query once, after all of them.
C1_JoinThenFixedOrderThenExecute ==
  res.op = "findAllEntities" =>
    LET log == res.log
        n == Len(log)
    IN /\ n > Len(getRelations)
       /\ \A k \in 1..Len(getRelations) :
            log[k] = [step |-> "join", call |-> "leftJoinAndSelect"]
       /\ \A k \in (Len(getRelations) + 1)..n : log[k].step # "join"
       /\ \A i, j \in 1..n : i < j => StepRank(log[i].step) <= StepRank(log[j].step)
       /\ \A k \in 1..n : (log[k].step = "execute") <=> (k = n)
       /\ log[n].call = "getMany"
       /\ \A c \in Applied(res.fo) : \E k \in 1..n : log[k].step = c

\* a query with filters, pagination and search set was composed and executed
C1_Witness ==
  /\ res.op = "findAllEntities"
  /\ res.kind = "ok"
  /\ {"filters", "pagination", "search"} \subseteq Applied(res.fo)
  /\ Len(res.rows) > 0

\* the fields of a filter clause hold in a returned record
Matches(e, filters) ==
  \A k \in 1..Len(filters) : Val(e, filters[k].key[1]) = filters[k].value

\* C7 (as amended): with pagination.limit = N and N >= 1, findAllEntities
\* returns at most N records.
C7_AtMostLimitWhenPositive ==
  (/\ res.op = "findAllEntities"
   /\ res.kind = "ok"
   /\ Val(Clause(res.fo, "pagination", EmptyObj), "limit") >= 1)
  => Len(res.rows) <= res.fo.pagination.limit

\* C7 as stated: for every N >= 0, limit = N gives at most N records
C7_AtMostLimitEveryN ==
  (/\ res.op = "findAllEntities"
   /\ res.kind = "ok"
   /\ "limit" \in DOMAIN Clause(res.fo, "pagination", EmptyObj))
  => Len(res.rows) <= res.fo.pagination.limit

\* a table of more visible records than the limit gave exactly limit records
C7_Witness ==
  /\ res.op = "findAllEntities"
  /\ res.kind = "ok"
  /\ SetClauses(res.fo) = {"pagination"}
  /\ res.fo.pagination.limit = 1
  /\ Cardinality(Visible(store, FALSE)) > 1
  /\ Len(res.rows) = 1

\* C9: every record findAllEntities returns matches every key of filters,
\* whatever the other clauses are.
C9_ReturnedRecordsMatchFilters ==
  (res.op = "findAllEntities" /\ res.kind = "ok")
  => \A k \in 1..Len(res.rows) :
       Matches(res.rows[k], Clause(res.fo, "filters", <<>>))

---------------------------------------------------------------------------
(* Properties of the single-record operations                              *)

\* the identifiers of the records findAllEntities returns on the table st
FoundIds(st, fo) ==
  UNION { { r.rows[k].id : k \in 1..Len(r.rows) } :
            r \in findAllResults(st, fo, "none") }

\* C2: for an existing record, after softDeleteEntity(id) findAllEntities
\* without includeDeleted leaves the record out and with includeDeleted
\* returns it; after restoreEntity(id) on the soft-deleted record,
\* findAllEntities without includeDeleted returns it again.
C2_SoftDeleteHidesRestoreShows ==
  /\ (res.op = "softDeleteEntity" /\ res.kind = "ok")
       => /\ res.id \notin FoundIds(store, NoOptions)
          /\ res.id \in FoundIds(store, [includeDeleted |-> TRUE])
  /\ (res.op = "restoreEntity" /\ res.fault = "none" /\ res.id \in DOMAIN store)
       => res.id \in FoundIds(store, NoOptions)

\* C3: updateEntity(id, payload) on an existing record returns and persists
\* a record whose fields present in the payload have the payload's values
\* and whose other fields keep their prior values; no other record changes.
C3_UpdateMergesAndTouchesOneRecord ==
  [][(/\ res'.op = "updateEntity"
      /\ res'.fault = "none"
      /\ res'.id \in DOMAIN store)
     => /\ res'.kind = "ok"
        /\ \A k \in DOMAIN res'.dto : Val(res'.out, k) = res'.dto[k]
        /\ \A k \in AllCols \ DOMAIN res'.dto :
             Val(res'.out, k) = RowEntity(res'.id, store[res'.id])[k]
        /\ DOMAIN store' = DOMAIN store
        /\ EntityEq(RowEntity(res'.id, store'[res'.id]), res'.out)
        /\ \A i \in DOMAIN store \ {res'.id} : store'[i] = store[i]]_vars

C6_SoftDeleteMarksDeleteRemoves ==
  [][/\ (/\ res'.op = "softDeleteEntity"
         /\ res'.fault = "none"
         /\ res'.id \in DOMAIN store)
        => /\ res'.id \in DOMAIN store'
           /\ store'[res'.id].deletedAt # NULL
     /\ (/\ res'.op = "deleteEntity"
         /\ res'.fault = "none"
         /\ res'.id \in DOMAIN store)
        => res'.id \notin DOMAIN store'
     /\ (/\ res'.op \in {"softDeleteEntity", "deleteEntity"}
         /\ res'.fault = "none"
         /\ res'.id \notin DOMAIN store)
        => /\ res'.kind = "NotFound"
           /\ store' = store]_vars

\* C8: findEntity of the id createEntity returned gives a record equal,
\* field by field, to the one createEntity returned.
C8_FindAfterCreateIsEqual ==
  (res.op = "createEntity" /\ res.kind = "ok")
  => LET f == findEntityResult(store, res.out.id, "none")
     IN f.kind = "ok" /\ EntityEq(f.out, res.out)

---------------------------------------------------------------------------
(* Properties of the schema resolution                                     *)

\* the response a binding gives for what the handler got from the service
Projected(binding, entity, isArray) ==
  ApplyTransform(binding.transformFn,
    IF isArray THEN [k \in 1..Len(entity) |-> map(binding.dto, entity[k])]
    ELSE map(binding.dto, entity))

\* C10: the schema of an operation is the method-level binding when one is
\* registered under the method's name, otherwise the class-level binding;
\* with no output binding at all the handler answers with the record as it
\* is and logs a warning, and the request does not fail.
C10_MethodThenClassThenIdentity ==
  LET meta == controller.meta
      bound(key, target) == <<key, target>> \in DOMAIN meta
  IN /\ (http.handler \in {"create", "getAll", "getOne", "update", "partialUpdate"}
         /\ http.kind = "ok")
        => IF bound(RESPONSE_DTO_KEY, http.handler)
           THEN /\ http.data = Projected(meta[<<RESPONSE_DTO_KEY, http.handler>>],
                                         http.entity, http.handler = "getAll")
                /\ http.log = <<>>
           ELSE IF bound(RESPONSE_DTO_KEY, ClassTarget)
           THEN /\ http.data = Projected(meta[<<RESPONSE_DTO_KEY, ClassTarget>>],
                                         http.entity, http.handler = "getAll")
                /\ http.log = <<>>
           ELSE /\ http.data = http.entity
                /\ http.log = <<NoResponseDtoWarning>>
     /\ \A key \in {CREATE_DTO_KEY, UPDATE_DTO_KEY} :
          (http.handler = (IF key = CREATE_DTO_KEY THEN "getCreateDto"
                           ELSE "getUpdateDto"))
          => IF http.method # NoMethod /\ bound(key, http.method)
             THEN http.dto = meta[<<key, http.method>>]
             ELSE bound(key, ClassTarget) => http.dto = meta[<<key, ClassTarget>>]

\* getOne answered under a method-level and a different class-level output
\* binding, with a record the two project differently
C10_Witness ==
  /\ http.handler = "getOne"
  /\ http.kind = "ok"
  /\ <<RESPONSE_DTO_KEY, "getOne">> \in DOMAIN controller.meta
  /\ <<RESPONSE_DTO_KEY, ClassTarget>> \in DOMAIN controller.meta
  /\ Projected(controller.meta[<<RESPONSE_DTO_KEY, "getOne">>], http.entity, FALSE)
       # Projected(controller.meta[<<RESPONSE_DTO_KEY, ClassTarget>>], http.entity, FALSE)
  /\ http.data = Projected(controller.meta[<<RESPONSE_DTO_KEY, "getOne">>],
                           http.entity, FALSE)

---------------------------------------------------------------------------
(* Properties of the controller's input side                               *)

\* the controller class registers something under the key, at any level
Registered(key) == \E s \in DOMAIN controller.meta : s[1] = key

\* C11: with no input schema registered, at the method or at the class,
\* create, update and partialUpdate fail with DTOException before anything
\* is validated or saved, and the store is as it was.
C11_NoInputSchemaFailsFast ==
  [][(/\ http'.handler \in {"create", "update", "partialUpdate"}
      /\ ~Registered(CREATE_DTO_KEY)
      /\ ~Registered(UPDATE_DTO_KEY))
     => /\ http'.kind = "DTOException"
        /\ store' = store]_vars

\* the schema @UpdateDto registers for a handler: the method's, else the
\* class's
UpdateSchema(handler) ==
  IF <<UPDATE_DTO_KEY, handler>> \in DOMAIN controller.meta
  THEN controller.meta[<<UPDATE_DTO_KEY, handler>>]
  ELSE controller.meta[<<UPDATE_DTO_KEY, ClassTarget>>]

\* C12: update and partialUpdate validate the payload against the schema
\* registered with @UpdateDto (the method's if there is one, else the
\* class's), not against the create schema: the payload is accepted exactly
\* when it satisfies the update schema.
C12_UpdateValidatesAgainstUpdateSchema ==
  (/\ http.handler \in {"update", "partialUpdate"}
   /\ \/ <<UPDATE_DTO_KEY, http.handler>> \in DOMAIN controller.meta
      \/ <<UPDATE_DTO_KEY, ClassTarget>> \in DOMAIN controller.meta)
  => ((http.kind # "Validation")
        <=> (DOMAIN http.body \subseteq UpdateSchema(http.handler).fields))

\* C13: in create, update and partialUpdate the payload is validated before
\* the service is called: whenever the payload fails the validation, the
\* request fails with the validation error, neither createEntity nor
\* updateEntity was called and the store is as it was.
C13_ValidationBeforeService ==
  [][(/\ http'.handler \in {"create", "update", "partialUpdate"}
      /\ \/ http'.kind = "Validation"
         \/ setValidationPipes(http'.body, http'.dto) # "ok")
     => /\ http'.kind = "Validation"
        /\ http'.calls = <<>>
        /\ store' = store]_vars

\* update was refused a payload for a record the table holds
C13_Witness ==
  /\ http.handler = "update"
  /\ http.kind = "Validation"
  /\ http.id \in DOMAIN store
  /\ store[http.id].deletedAt = NULL
  /\ \E k \in DOMAIN http.body : http.body[k] # store[http.id][k]

\* the schema @CreateDto registers for a handler: the method's, else the
\* class's
CreateSchema(handler) ==
  IF <<CREATE_DTO_KEY, handler>> \in DOMAIN controller.meta
  THEN controller.meta[<<CREATE_DTO_KEY, handler>>]
  ELSE controller.meta[<<CREATE_DTO_KEY, ClassTarget>>]

\* C14: for create and for update, a payload with a field that the input
\* schema of the operation (the create schema for create, the update schema
\* for update) does not declare fails validation, whatever its other fields
\* are, and nothing of it is saved.
C14_UndeclaredFieldIsRefused ==
  [][/\ (/\ http'.handler = "create"
         /\ \/ <<CREATE_DTO_KEY, "create">> \in DOMAIN controller.meta
            \/ <<CREATE_DTO_KEY, ClassTarget>> \in DOMAIN controller.meta
         /\ ~(DOMAIN http'.body \subseteq CreateSchema("create").fields))
        => (http'.kind = "Validation" /\ store' = store)
     /\ (/\ http'.handler = "update"
         /\ \/ <<UPDATE_DTO_KEY, "update">> \in DOMAIN controller.meta
            \/ <<UPDATE_DTO_KEY, ClassTarget>> \in DOMAIN controller.meta
         /\ ~(DOMAIN http'.body \subseteq UpdateSchema("update").fields))
        => (http'.kind = "Validation" /\ store' = store)]_vars

---------------------------------------------------------------------------
(* Properties of the controller's output side                              *)

\* the handlers that answer with records
Answering == {"create", "getAll", "getOne", "update", "partialUpdate"}

\* an output binding is registered for the handler, at the method or at the
\* class, and the one the resolution order gives
HasOutputBinding(handler) ==
  \/ <<RESPONSE_DTO_KEY, handler>> \in DOMAIN controller.meta
  \/ <<RESPONSE_DTO_KEY, ClassTarget>> \in DOMAIN controller.meta

OutputBinding(handler) ==
  IF <<RESPONSE_DTO_KEY, handler>> \in DOMAIN controller.meta
  THEN controller.meta[<<RESPONSE_DTO_KEY, handler>>]
  ELSE controller.meta[<<RESPONSE_DTO_KEY, ClassTarget>>]

\* the records of a response: what the transform function wrapped, a list
\* for getAll and one record otherwise
ResponseRecords(h) ==
  LET inner == IF OutputBinding(h.handler).transformFn = Envelope
               THEN h.data.data ELSE h.data
  IN IF h.handler = "getAll" THEN inner ELSE <<inner>>

\* C15: when an output schema is resolved, every record of the response, the
\* single one or any of a list, has only fields the schema exposes; a field
\* the stored record has and the schema does not expose is not in the output.
C15_OnlyExposedFields ==
  (/\ http.handler \in Answering
   /\ http.kind = "ok"
   /\ HasOutputBinding(http.handler))
  => LET records == ResponseRecords(http)
     IN \A k \in 1..Len(records) :
          DOMAIN records[k] \subseteq OutputBinding(http.handler).dto.fields

\* getAll answered with a record whose stored email the schema does not
\* expose
C15_Witness ==
  /\ http.handler = "getAll"
  /\ http.kind = "ok"
  /\ HasOutputBinding("getAll")
  /\ "email" \notin OutputBinding("getAll").dto.fields
  /\ \E k \in 1..Len(http.entity) :
       /\ "email" \in DOMAIN http.entity[k]
       /\ http.entity[k].email # NULL
       /\ "email" \notin DOMAIN ResponseRecords(http)[k]
       /\ "name" \in DOMAIN ResponseRecords(http)[k]

\* the entity with the exposed fields only
Exposed(entity, fields) == [f \in DOMAIN entity \cap fields |-> entity[f]]

\* C16: a bound transform function is applied once for a response, after
\* the projection and as the last step: for one record it is given the
\* projected record, for a list the whole list of the projected records in
\* their order, and what it returns is the response.
C16_TransformOnceOnProjected ==
  (/\ http.handler \in Answering
   /\ http.kind = "ok"
   /\ HasOutputBinding(http.handler)
   /\ OutputBinding(http.handler).transformFn = Envelope)
  => LET fields == OutputBinding(http.handler).dto.fields
         projected ==
           IF http.handler = "getAll"
           THEN [k \in 1..Len(http.entity) |-> Exposed(http.entity[k], fields)]
           ELSE Exposed(http.entity, fields)
     IN http.data = [success |-> TRUE, data |-> projected]

\* getAll answered with a list of two records under a transform function
C16_Witness ==
  /\ http.handler = "getAll"
  /\ http.kind = "ok"
  /\ HasOutputBinding("getAll")
  /\ OutputBinding("getAll").transformFn = Envelope
  /\ Len(http.entity) = 2
  /\ http.entity[1] # http.entity[2]
  /\ DOMAIN http.data = {"success", "data"}
  /\ Len(http.data.data) = 2

---------------------------------------------------------------------------
(* Properties of the errors                                                *)

\* C17: a NotFound or a validation failure raised during create, getOne,
\* update, partialUpdate, delete or restoreEntity reaches the caller with
\* its own kind (404 / 400), never as the generic 500: a payload that fails
\* the validation gives the validation error, and a lookup that finds no
\* record gives NotFound naming the entity and the id.
C17_NotFoundAndValidationKeepTheirKind ==
  [][LET h == http'
         invalid == /\ h.handler \in {"create", "update", "partialUpdate"}
                    /\ setValidationPipes(h.body, h.dto) # "ok"
         missing == /\ h.handler \in {"getOne", "update", "partialUpdate",
                                      "delete", "restoreEntity"}
                    /\ ~invalid
                    /\ h.fault # "read"
                    /\ RepoFindOne(store, h.id) = EmptyObj
     IN /\ invalid => h.kind = "Validation"
        /\ missing => (h.kind = "NotFound" /\ h.msg = NotFound(h.id))
        /\ (h.handler # "none" /\ h.kind = "Internal") => (~invalid /\ ~missing)]_vars

\* updateEntity raised NotFound inside the handler's try and the caller got
\* it as NotFound
C17_Witness ==
  /\ http.handler = "partialUpdate"
  /\ http.calls = <<"updateEntity">>
  /\ http.kind = "NotFound"
  /\ http.log # <<>>
  /\ store # EmptyObj

\* C18: a failure of the store that is not NotFound leaves every operation
\* of the service as the generic InternalServerErrorException, never as the
\* store's own error.
C18_StoreFailureIsInternal ==
  (/\ res.op \in {"createEntity", "findAllEntities", "findEntity", "updateEntity",
                  "softDeleteEntity", "deleteEntity", "restoreEntity"}
   /\ res.kind \notin {"ok", "NotFound"})
  => res.kind = "Internal"

---------------------------------------------------------------------------
(* Properties of the FilterOptionsBuilder                                  *)

\* C19: what build() returns is an immutable snapshot: no setter called on
\* the builder afterwards changes a field of a Filter Specification that
\* build() returned earlier.
C19_BuiltSpecificationIsASnapshot ==
  \A k \in 1..Len(builder.built) : Returned(k) = builder.built[k].seen

---------------------------------------------------------------------------
(* Properties of the projection                                            *)

\* C20: applySelectFields with a non-empty field list restricts the
\* projection to the id and bio column of every declared relation and the
\* requested fields (qualified with the root alias unless dotted): of the
\* root entity exactly the requested fields are returned, and no column
\* outside them.
C20_OnlyRequestedFieldsReturned ==
  (/\ res.op = "findAllEntities"
   /\ res.kind = "ok"
   /\ Clause(res.fo, "selectFields", <<>>) # <<>>)
  => LET fields == res.fo.selectFields
         requested == {fields[k][1] : k \in {l \in 1..Len(fields) : Len(fields[l]) = 1}}
     IN \A k \in 1..Len(res.rows) : DOMAIN res.rows[k] = requested
---------------------------------------------------------------------------
(* Properties of the query text and its parameters                         *)

\* the field names a Filter Specification gives
CallerFields(fo) ==
  LET filters == Clause(fo, "filters", <<>>)
      orderBy == Clause(fo, "orderBy", <<>>)
      search == Clause(fo, "search", EmptyObj)
      fields == IF "searchFields" \in DOMAIN search THEN search.searchFields ELSE <<>>
  IN {filters[k].key : k \in 1..Len(filters)}
     \cup {orderBy[k].field : k \in 1..Len(orderBy)}
     \cup {fields[k] : k \in 1..Len(fields)}
     \cup {Clause(fo, c, [field |-> <<>>]).field : c \in {"date", "isNull", "groupBy"}}

\* the values a Filter Specification gives, as the parameters that carry them
CallerValues(fo) ==
  LET filters == Clause(fo, "filters", <<>>)
      search == Clause(fo, "search", EmptyObj)
      date == Clause(fo, "date", EmptyObj)
      groupBy == Clause(fo, "groupBy", EmptyObj)
  IN {Bound(filters[k].value) : k \in 1..Len(filters)}
     \cup {Pattern(search[k]) : k \in DOMAIN search \cap {"value"}}
     \cup {Bound(date[k]) : k \in DOMAIN date \cap {"from", "to"}}
     \cup {Bound(groupBy[k].value) : k \in DOMAIN groupBy \cap {"having"}}

\* C21: in every query the engine composes, the text of a condition holds a
\* field name of the caller, an operator and the names of bound parameters,
\* the text of HAVING is the caller's condition text and the name of a bound
\* parameter, and every value of the caller (filter values, the search text,
\* the date bounds, the having threshold) is in the parameters only.
C21_ValuesAreBoundNeverInText ==
  res.op = "findAllEntities" =>
    LET fo == res.fo
        q == ComposeQuery(fo)
    IN /\ \A i \in 1..Len(q.wheres) :
            LET w == q.wheres[i]
            IN /\ w.lead \in {"", "OR"}
               /\ w.col \in {Qualify(f) : f \in CallerFields(fo)}
               /\ w.op \in {"=", "LIKE", "BETWEEN", "IS NULL", "IS NOT NULL"}
               /\ \A a \in 1..Len(w.args) : w.args[a] \in DOMAIN q.params
       /\ \A i \in 1..Len(q.havings) :
            /\ q.havings[i].cond = fo.groupBy.having.condition
            /\ q.havings[i].args = << <<"value">> >>
            /\ <<"value">> \in DOMAIN q.params
       /\ \A n \in DOMAIN q.params : q.params[n] \in CallerValues(fo)

\* a query with a filter, a search and a having threshold was composed and
\* the store answered it with a record
C21_Witness ==
  /\ res.op = "findAllEntities"
  /\ res.kind = "ok"
  /\ Clause(res.fo, "filters", <<>>) # <<>>
  /\ "value" \in DOMAIN Clause(res.fo, "search", EmptyObj)
  /\ "having" \in DOMAIN Clause(res.fo, "groupBy", EmptyObj)
  /\ DOMAIN ComposeQuery(res.fo).params = {<<"name">>, <<"search">>, <<"value">>}
  /\ Len(res.rows) > 0

\* C22: applyFilters qualifies a filter key with the root alias only when the
\* key has no dot: a root field f gives a condition on entity.f and a
\* relation-qualified key r.f gives a condition on r.f.
C22_FilterKeyQualifiedUnlessDotted ==
  res.op = "findAllEntities" =>
    LET filters == Clause(res.fo, "filters", <<>>)
        q == ComposeQuery(res.fo)
    IN \A k \in 1..Len(filters) :
         /\ q.wheres[k].op = "="
         /\ q.wheres[k].col = IF Len(filters[k].key) > 1 THEN filters[k].key
                              ELSE Qualify(filters[k].key)

\* the conditions applySearch added to a composed query
SearchConditions(q) == SelectSeq(q.wheres, LAMBDA w : w.op = "LIKE")

\* C23: applySearch adds nothing when the value is empty or no search field
\* is given; for k >= 1 search fields it adds k conditions field LIKE :search,
\* with %value% bound, each joined to the one before by a single OR, so that a
\* record passes the search exactly when one of the k fields contains the
\* value.
C23_SearchIsAnOrChainOfLike ==
  (res.op = "findAllEntities" /\ res.fault = "none") =>
    LET search == Clause(res.fo, "search", EmptyObj)
        q == ComposeQuery(res.fo)
        conds == SearchConditions(q)
    IN IF \/ Val(search, "value") = NULL
          \/ "searchFields" \notin DOMAIN search
          \/ search.searchFields = <<>>
       THEN conds = <<>>
       ELSE /\ Len(conds) = Len(search.searchFields)
            /\ \A k \in 1..Len(conds) :
                 /\ conds[k].col = Qualify(search.searchFields[k])
                 /\ conds[k].args = << <<"search">> >>
                 /\ conds[k].type = "or"
                 /\ conds[k].lead = ""
            /\ q.params[<<"search">>] = Pattern(search.value)
            /\ SetClauses(res.fo) = {"search"}
                 => /\ res.kind = "ok"
                    /\ {res.rows[k].id : k \in 1..Len(res.rows)}
                         = {i \in Visible(store, FALSE) :
                              \E f \in 1..Len(search.searchFields) :
                                 LET c == store[i][search.searchFields[f][1]]
                                 IN c # NULL /\ IsSubstr(StrTable[search.value], StrTable[c])}

\* C24: each setter of the builder sets its own field of the specification
\* to the value it was given and leaves the eight other fields as they were,
\* so the setters of different fields commute and build() gives the same
\* specification whatever the order of the calls was.
C24_SetterSetsItsOwnFieldOnly ==
  [][LET Sets(field, value) ==
           /\ builder'.options[field] = value
           /\ \A other \in DOMAIN BuilderDefaults \ {field} :
                builder'.options[other] = builder.options[other]
     IN /\ \A filters \in FiltersOpts :
             setFilters(filters) => Sets("filters", filters)
        /\ \A orderBy \in OrderByOpts :
             setOrderBy(orderBy) => Sets("orderBy", orderBy)
        /\ \A selectFields \in SelectFieldsOpts :
             setSelectFields(selectFields) => Sets("selectFields", selectFields)
        /\ \A limit \in 0..MaxLimit, offset \in 0..1 :
             setPagination(limit, offset)
               => Sets("pagination", [limit |-> limit, offset |-> offset])
        /\ \A s \in SearchOpts \ {EmptyObj} :
             setSearch(s.searchFields, s.value) => Sets("search", s)
        /\ \A d \in DateOpts \ {[field |-> <<>>]} :
             setDateRange(d.field, d.from, d.to) => Sets("date", d)
        /\ \A includeDeleted \in BOOLEAN :
             setIncludeDeleted(includeDeleted) => Sets("includeDeleted", includeDeleted)
        /\ \A n \in IsNullOpts : setIsNull(n.field, n.isNull) => Sets("isNull", n)
        /\ \A g \in GroupByOpts :
             setGroupBy(g.field, IF "having" \in DOMAIN g THEN g.having ELSE EmptyObj)
               => Sets("groupBy", g)]_vars

\* two setters of different fields were called, and build() after them
C24_Witness ==
  /\ builder.sets = 2
  /\ Cardinality(SetClauses(builder.options)) = 2
  /\ builder.built # <<>>
  /\ builder.built[Len(builder.built)].seen = builder.options

---------------------------------------------------------------------------
(* Properties of the controller's delete                                   *)

\* C25: the controller's delete(id) soft-deletes the record (the marker is
\* set and the row is kept) exactly when the controller's
\* filterOptions.includeDeleted is true, and removes the row otherwise; for
\* an id the store does not hold it fails with NotFound in both modes and
\* the store is as it was.
C25_DeleteIsSoftExactlyWhenIncludeDeleted ==
  [][(http'.handler = "delete" /\ http'.fault = "none")
     => LET id == http'.id
            soft == /\ "includeDeleted" \in DOMAIN controller.filterOptions
                    /\ controller.filterOptions.includeDeleted
        IN IF id \notin DOMAIN store
           THEN /\ http'.kind = "NotFound"
                /\ http'.msg = NotFound(id)
                /\ store' = store
           ELSE /\ \A i \in DOMAIN store \ {id} :
                     i \in DOMAIN store' /\ store'[i] = store[i]
                /\ store[id].deletedAt = NULL => http'.kind = "ok"
                /\ IF soft
                   THEN /\ id \in DOMAIN store'
                        /\ store'[id].deletedAt # NULL
                        /\ \A c \in DataCols : store'[id][c] = store[id][c]
                   ELSE id \notin DOMAIN store']_vars

---------------------------------------------------------------------------
(* Properties of calls in flight at the same time                          *)

\* both calls are over
AllDone == \A p \in DOMAIN tasks : tasks[p].pc = "done"

\* C26: two updateEntity calls on the same existing id, run at the same time
\* and interleaved in any way, whose payloads set different fields leave a
\* record that holds both payloads: the record one update after the other
\* would leave.
C26_ConcurrentUpdatesBothKept ==
  (/\ tasks # NoTasks
   /\ AllDone
   /\ tasks[1].op = "updateEntity" /\ tasks[2].op = "updateEntity"
   /\ tasks[1].id = tasks[2].id
   /\ DOMAIN tasks[1].dto \cap DOMAIN tasks[2].dto = {}
   /\ tasks[1].kind = "ok" /\ tasks[2].kind = "ok")
  => LET id == tasks[1].id
     IN /\ id \in DOMAIN store
        /\ EntityEq(RowEntity(id, store[id]),
                    RepoMerge(RepoMerge(tasks[1].entity, tasks[1].dto), tasks[2].dto))

\* C27: when updateEntity(id, payload) and deleteEntity(id) run at the same
\* time on an existing record and deleteEntity returns without error, the
\* record is absent from the store once both calls are over: an update that
\* read the record before the delete does not write the row back.
C27_DeleteWinsOverConcurrentUpdate ==
  (/\ tasks # NoTasks
   /\ AllDone
   /\ tasks[1].op = "updateEntity" /\ tasks[2].op = "deleteEntity"
   /\ tasks[1].id = tasks[2].id
   /\ tasks[2].kind = "ok")
  => tasks[1].id \notin DOMAIN store

---------------------------------------------------------------------------
(* Properties of the parameters of a composed query                        *)

\* C28: in a composed query every bound value is the one its own clause
\* gave it: each filter key is bound to its filter value, :search to the
\* search pattern, :from and :to to the date bounds and :value to the having
\* threshold, whatever the keys of the filters map are (search, from, to and
\* value among them); no later clause overwrites the parameter of an earlier
\* one.
C28_EveryClauseKeepsItsBoundValue ==
  res.op = "findAllEntities" =>
    LET fo == res.fo
        q == ComposeQuery(fo)
        filters == Clause(fo, "filters", <<>>)
        search == Clause(fo, "search", EmptyObj)
        date == Clause(fo, "date", EmptyObj)
        groupBy == Clause(fo, "groupBy", EmptyObj)
    IN /\ \A k \in 1..Len(filters) :
            /\ filters[k].key \in DOMAIN q.params
            /\ q.params[filters[k].key] = Bound(filters[k].value)
       /\ SearchConditions(q) # <<>>
            => q.params[<<"search">>] = Pattern(search.value)
       /\ (\E i \in 1..Len(q.wheres) : q.wheres[i].op = "BETWEEN")
            => /\ q.params[<<"from">>] = Bound(date.from)
               /\ q.params[<<"to">>] = Bound(date.to)
       /\ q.havings # <<>>
            => q.params[<<"value">>] = Bound(groupBy.having.value)

---------------------------------------------------------------------------
(* Properties of createEntity's effect on the store                        *)

\* C29: createEntity(payload) adds exactly one record to the store and
\* leaves every record the store held as it was, for every payload, one that
\* carries the id of a record the store holds included.
C29_CreateAddsOneRecordOnly ==
  [][(res'.op = "createEntity" /\ res'.kind = "ok")
     => /\ \E new \in Ids \ DOMAIN store : DOMAIN store' = DOMAIN store \cup {new}
        /\ \A i \in DOMAIN store : store'[i] = store[i]]_vars

---------------------------------------------------------------------------
(* Properties of the builder's defaults                                    *)

\* C30: the Filter Specification a new FilterOptionsBuilder builds with no
\* setter called is neutral: given to findAllEntities, none of the nine apply
\* steps does anything, and the composed query and its result are those of
\* findAllEntities called without a Filter Specification.
C30_DefaultSpecificationIsNeutral ==
  (/\ res.op = "findAllEntities"
   /\ builder.sets = 0
   /\ res.fo = builder.options)
  => /\ ComposeQuery(res.fo) = ComposeQuery(NoOptions)
     /\ \A k \in 1..Len(res.log) : res.log[k].step \in {"join", "execute"}
     /\ findAllResults(store, res.fo, res.fault)
          = findAllResults(store, NoOptions, res.fault)
     /\ [kind |-> res.kind, rows |-> res.rows, log |-> res.log]
          \in findAllResults(store, NoOptions, res.fault)

\* findAllEntities was given the specification of a new builder and returned
\* the one record that is not soft-deleted of a table of two
C30_Witness ==
  /\ res.op = "findAllEntities"
  /\ res.fo = NewBuilder.options
  /\ res.kind = "ok"
  /\ Cardinality(DOMAIN store) = 2
  /\ Len(res.rows) = 1

====
